---- MODULE Spec2Model ----
(***************************************************************************)
(* Model of the OM-QB job (scripts/omqb_scraper.py): the odds-keyed result *)
(* cache (cache_lookup, cache_upsert), the retry coordinator               *)
(* (process_with_retry, _do_one_attempt), the reclamation of a driver      *)
(* (resilient_quit) and the orchestrator (main).                           *)
(*                                                                         *)
(* Texts are sequences of one-character strings, so that strip(), lower()  *)
(* and split("-") are computed as Python computes them.  Odds are integers *)
(* in hundredths (210 stands for 2.10).                                    *)
(***************************************************************************)
EXTENDS Integers, Sequences, FiniteSets, TLC

\* ------------------------------------------------------------------ bounds
\* Largest number of input rows (df_in) of a run.
MaxItems == 2

\* MAX_ATTEMPTS = int(os.getenv("MAX_ATTEMPTS", "5"))
MAX_ATTEMPTS == 5

\* ------------------------------------------------------------------ cells
\* A DataFrame cell: missing (NaN), a Python str, or a float.
NaN == [t |-> "nan", s |-> <<>>, v |-> 0]
Str(chars) == [t |-> "str", s |-> chars, v |-> 0]
Num(cents) == [t |-> "num", s |-> <<>>, v |-> cents]

\* pd.notna(x) / Series.isna()
IsNa(x) == x.t = "nan"

\* ------------------------------------------------------------------ texts
UpperChars == <<"A","B","C","D","E","F","G","H","I","J","K","L","M",
                "N","O","P","Q","R","S","T","U","V","W","X","Y","Z">>
LowerChars == <<"a","b","c","d","e","f","g","h","i","j","k","l","m",
                "n","o","p","q","r","s","t","u","v","w","x","y","z">>

\* str.lower() on one character
LowerChar(c) ==
    IF \E k \in 1..Len(UpperChars) : UpperChars[k] = c
    THEN LowerChars[CHOOSE k \in 1..Len(UpperChars) : UpperChars[k] = c]
    ELSE c

\* str.lower()
Lower(s) == [k \in 1..Len(s) |-> LowerChar(s[k])]

IsSpace(c) == c \in {" ", "\t", "\n"}

RECURSIVE LStrip(_)
LStrip(s) == IF s # <<>> /\ IsSpace(Head(s)) THEN LStrip(Tail(s)) ELSE s

RECURSIVE RStrip(_)
RStrip(s) ==
    IF s # <<>> /\ IsSpace(s[Len(s)]) THEN RStrip(SubSeq(s, 1, Len(s) - 1)) ELSE s

\* str.strip()
Strip(s) == RStrip(LStrip(s))

\* the sentinels of _is_filled: ("", "nan", "null", "none")
Sentinels == { <<>>, <<"n","a","n">>, <<"n","u","l","l">>, <<"n","o","n","e">> }

\* the decimal digits of a natural number
RECURSIVE DigitsOf(_)
DigitsOf(n) ==
    IF n < 10 THEN <<ToString(n)>> ELSE Append(DigitsOf(n \div 10), ToString(n % 10))

\* f"{x:.2f}" of a value with two decimals
Fmt2(cents) ==
    DigitsOf(cents \div 100) \o <<".">>
        \o <<ToString((cents % 100) \div 10), ToString(cents % 10)>>

\* str(x) of a float with at most two decimals: "2.1", "10.0", "1.25"
FloatStr(cents) ==
    DigitsOf(cents \div 100) \o <<".">>
        \o (IF cents % 10 = 0 THEN <<ToString((cents % 100) \div 10)>>
            ELSE <<ToString((cents % 100) \div 10), ToString(cents % 10)>>)

\* str(x) of a cell that is not missing
PyStr(x) == IF x.t = "str" THEN x.s ELSE FloatStr(x.v)

\* _is_filled(x)
IsFilled(x) == ~IsNa(x) /\ Lower(Strip(PyStr(x))) \notin Sentinels

\* truth value of a cell in "cached.get(...) and cached.get(...)"
Truthy(x) ==
    CASE x.t = "str" -> x.s # <<>>
      [] x.t = "num" -> x.v # 0
      [] OTHER -> TRUE

\* truth value of "not keyodds": NaN is a float and is true, "" and 0 are false
Falsy(x) == (x.t = "str" /\ x.s = <<>>) \/ (x.t = "num" /\ x.v = 0)

\* ------------------------------------------------------------------ keys
\* KeyOdds as the upstream job writes it: f"{h:.2f}" + "-" + f"{d:.2f}" + "-" + f"{a:.2f}"
KeyChars(h, d, a) == Fmt2(h) \o <<"-">> \o Fmt2(d) \o <<"-">> \o Fmt2(a)

\* str.split(sep)
RECURSIVE SplitAcc(_, _, _)
SplitAcc(s, sep, cur) ==
    IF s = <<>> THEN <<cur>>
    ELSE IF Head(s) = sep THEN <<cur>> \o SplitAcc(Tail(s), sep, <<>>)
    ELSE SplitAcc(Tail(s), sep, Append(cur, Head(s)))

Split(s, sep) == SplitAcc(s, sep, <<>>)

\* the number a text of digits stands for
RECURSIVE DigitsValue(_)
DigitsValue(s) ==
    IF s = <<>> THEN 0
    ELSE 10 * DigitsValue(SubSeq(s, 1, Len(s) - 1))
           + (CHOOSE n \in 0..9 : ToString(n) = s[Len(s)])

\* ------------------------------------------------------------------ normalize
\* CACHE_ROUND_DECIMALS = int(os.getenv("CACHE_ROUND_DECIMALS", "2"))
CACHE_ROUND_DECIMALS == 2

\* A float: finite ("fin") with a sign and a magnitude in thousandths, "nan" or
\* "inf"; "err" stands for float(x) raising and "none" for Python's None.
F(k, neg, m) == [k |-> k, neg |-> neg, m |-> m]

\* The arguments normalize_odds is called with: an int, a float, a str, None.
IntIn(n) == [t |-> "int", s |-> <<>>, f |-> F("fin", n < 0, 1000 * (IF n < 0 THEN -n ELSE n))]
FloatIn(k, neg, m) == [t |-> "float", s |-> <<>>, f |-> F(k, neg, m)]
StrIn(chars) == [t |-> "str", s |-> chars, f |-> F("fin", FALSE, 0)]
NoneIn == [t |-> "none", s |-> <<>>, f |-> F("none", FALSE, 0)]

IsDigits(s) == \A k \in 1..Len(s) : s[k] \in {"0", "1", "2", "3", "4", "5", "6", "7", "8", "9"}

Pow10(n) == IF n = 0 THEN 1 ELSE IF n = 1 THEN 10 ELSE IF n = 2 THEN 100 ELSE 1000

\* float(s) of an unsigned text: "nan", "inf", "infinity", or a plain decimal
\* with at most three decimals ("2", "2.", ".5", "2.004"); anything else raises
\* ValueError (exponents and longer fractions are not among the texts used)
ParseUnsigned(s, neg) ==
    LET p == Split(s, ".")
    IN  IF s = <<"n","a","n">> THEN F("nan", neg, 0)
        ELSE IF s \in { <<"i","n","f">>, <<"i","n","f","i","n","i","t","y">> }
        THEN F("inf", neg, 0)
        ELSE IF Len(p) = 1 /\ p[1] # <<>> /\ IsDigits(p[1])
        THEN F("fin", neg, 1000 * DigitsValue(p[1]))
        ELSE IF /\ Len(p) = 2 /\ IsDigits(p[1]) /\ IsDigits(p[2])
                /\ (p[1] # <<>> \/ p[2] # <<>>) /\ Len(p[2]) <= 3
        THEN F("fin", neg,
               1000 * DigitsValue(p[1]) + DigitsValue(p[2]) * Pow10(3 - Len(p[2])))
        ELSE F("err", FALSE, 0)

\* float(x): whitespace around a text is ignored, a sign may lead it, letter
\* case does not matter; float(None) raises TypeError
PyFloat(x) ==
    LET s == Lower(Strip(x.s))
    IN  CASE x.t = "none" -> F("err", FALSE, 0)
          [] x.t = "str" ->
                IF s # <<>> /\ Head(s) = "-" THEN ParseUnsigned(Tail(s), TRUE)
                ELSE IF s # <<>> /\ Head(s) = "+" THEN ParseUnsigned(Tail(s), FALSE)
                ELSE ParseUnsigned(s, FALSE)
          [] OTHER -> x.f

\* a rounding that cuts the decimals off
Truncate(f, nd) ==
    IF f.k # "fin" THEN f
    ELSE F("fin", f.neg, (f.m \div Pow10(3 - nd)) * Pow10(3 - nd))

\* round(x, nd) of a float that is not halfway between two neighbours: the
\* nearest multiple of 10^-nd, sign kept (round(-0.004, 2) is -0.0); nan and
\* inf are returned as they are
Round(f, nd) ==
    IF f.k # "fin" THEN f
    ELSE F("fin", f.neg,
           ((f.m + Pow10(3 - nd) \div 2) \div Pow10(3 - nd)) * Pow10(3 - nd))

\* the last n digits of k, with leading zeros
RECURSIVE LastDigits(_, _)
LastDigits(k, n) ==
    IF n = 0 THEN <<>> ELSE Append(LastDigits(k \div 10, n - 1), ToString(k % 10))

\* f"{x:.{nd}f}" of a rounded float
FmtFixed(f, nd) ==
    LET q == f.m \div Pow10(3 - nd)
        sign == IF f.neg THEN <<"-">> ELSE <<>>
    IN  CASE f.k = "nan" -> <<"n","a","n">>
          [] f.k = "inf" -> sign \o <<"i","n","f">>
          [] OTHER -> sign \o DigitsOf(q \div Pow10(nd))
                        \o (IF nd = 0 THEN <<>> ELSE <<".">> \o LastDigits(q, nd))

\* normalize_odds: "return None, None, None, ''"
NoKey == [h |-> NoneIn, d |-> NoneIn, a |-> NoneIn, key |-> <<>>]

\* normalize_odds(h, d, a, nd): (None, None, None, "") when a float() raises,
\* else the three rounded floats and the key of their formatted values
normalize_odds(h, d, a, nd) ==
    LET fh == PyFloat(h)
        fd == PyFloat(d)
        fa == PyFloat(a)
    IN  IF fh.k = "err" \/ fd.k = "err" \/ fa.k = "err"
        THEN NoKey
        ELSE [h |-> FloatIn(Round(fh, nd).k, Round(fh, nd).neg, Round(fh, nd).m),
              d |-> FloatIn(Round(fd, nd).k, Round(fd, nd).neg, Round(fd, nd).m),
              a |-> FloatIn(Round(fa, nd).k, Round(fa, nd).neg, Round(fa, nd).m),
              key |-> FmtFixed(Round(fh, nd), nd) \o <<"-">> \o FmtFixed(Round(fd, nd), nd)
                        \o <<"-">> \o FmtFixed(Round(fa, nd), nd)]

\* ------------------------------------------------------------------ cache
\* One row of df_cache, columns CACHE_COLS.
Rec(h, d, a, back, ind, key) ==
    [Odd_Back_H |-> h, Odd_Back_D |-> d, Odd_Back_A |-> a,
     Back_Model |-> back, Indicators_Model |-> ind, KeyOdds |-> key]

\* elementwise "==" of a column cell with a value: NaN equals nothing
CellEq(x, y) ==
    /\ x.t = y.t
    /\ x.t # "nan"
    /\ (x.t = "str" => x.s = y.s)
    /\ (x.t = "num" => x.v = y.v)

\* positions of the rows selected by df_cache["KeyOdds"] == keyodds
MatchRows(c, key) == {k \in 1..Len(c) : CellEq(c[k].KeyOdds, key)}

\* "if not keyodds or df_cache.empty:" is followed by a log line that reads the
\* undefined name df, so this branch raises NameError instead of returning None.
LookupRaises(c, key) == Falsy(key) \/ c = <<>>

None == [kind |-> "none", Back_Model |-> NaN, Indicators_Model |-> NaN, KeyOdds |-> NaN]

\* cache_lookup(df_cache, keyodds) on the branch that does not raise
cache_lookup(c, key) ==
    LET r == MatchRows(c, key)
        first == c[CHOOSE k \in r : \A j \in r : k <= j]
    IN  IF r = {} THEN None
        ELSE IF IsNa(first.Back_Model) \/ IsNa(first.Indicators_Model) THEN None
        ELSE [kind |-> "hit", Back_Model |-> first.Back_Model,
              Indicators_Model |-> first.Indicators_Model, KeyOdds |-> first.KeyOdds]

\* a hit test that never succeeds, as when the cache is switched off
IsHitCacheDisabled(cached) == FALSE

\* main: "cached and cached.get("Back_Model") and cached.get("Indicators_Model")"
IsHit(cached) ==
    cached.kind = "hit" /\ Truthy(cached.Back_Model) /\ Truthy(cached.Indicators_Model)

\* code points in ascending order, for the characters of a formatted price
CharOrder == <<"-", ".", "0", "1", "2", "3", "4", "5", "6", "7", "8", "9">>
CharRank(ch) == CHOOSE k \in 1..Len(CharOrder) : CharOrder[k] = ch

\* s < t for Python strings
RECURSIVE StrLess(_, _)
StrLess(s, t) ==
    IF t = <<>> THEN FALSE
    ELSE IF s = <<>> THEN TRUE
    ELSE IF Head(s) = Head(t) THEN StrLess(Tail(s), Tail(t))
    ELSE CharRank(Head(s)) < CharRank(Head(t))

\* Order of the values of one sort column: floats ascending, then strings in
\* string order, missing values last (pandas orders a column of mixed floats and
\* strings this way; a column of one type is in that type's order).
CellLess(x, y) ==
    CASE x.t = "num" /\ y.t = "num" -> x.v < y.v
      [] x.t = "str" /\ y.t = "str" -> StrLess(x.s, y.s)
      [] x.t = "num" /\ y.t # "num" -> TRUE
      [] x.t = "str" /\ y.t = "nan" -> TRUE
      [] OTHER -> FALSE

\* row x sorts strictly before row y by ["Odd_Back_H", "Odd_Back_D", "Odd_Back_A"]
RowLess(x, y) ==
    \/ CellLess(x.Odd_Back_H, y.Odd_Back_H)
    \/ /\ x.Odd_Back_H = y.Odd_Back_H
       /\ \/ CellLess(x.Odd_Back_D, y.Odd_Back_D)
          \/ /\ x.Odd_Back_D = y.Odd_Back_D
             /\ CellLess(x.Odd_Back_A, y.Odd_Back_A)

\* insert row r into the sorted rows s, after the rows that do not sort after it
RECURSIVE InsertRow(_, _)
InsertRow(s, r) ==
    IF s = <<>> THEN <<r>>
    ELSE IF RowLess(r, Head(s)) THEN <<r>> \o s
    ELSE <<Head(s)>> \o InsertRow(Tail(s), r)

RECURSIVE SortRows(_)
\* df_cache.sort_values(by=[...], ascending=True, ignore_index=True)
SortRows(s) ==
    IF s = <<>> THEN <<>>
    ELSE InsertRow(SortRows(SubSeq(s, 1, Len(s) - 1)), s[Len(s)])

\* "h, d, a = keyodds.split("-")" raises for a key that is no string
\* (AttributeError) or has not exactly three parts (ValueError)
UpsertRaises(key) == key.t # "str" \/ Len(Split(key.s, "-")) # 3

\* the row cache_upsert builds: the three odds are the key's three substrings
UpsertRow(key, back, ind) ==
    LET p == Split(key.s, "-")
    IN  Rec(Str(p[1]), Str(p[2]), Str(p[3]), back, ind, key)

\* an overwrite that writes the texts into every record
OverwriteAll(c, key, back, ind) ==
    [k \in 1..Len(c) |-> [c[k] EXCEPT !.Back_Model = back, !.Indicators_Model = ind]]

\* an overwrite that merges: the new texts are appended to the stored ones
OverwriteMerge(c, key, back, ind) ==
    [k \in 1..Len(c) |->
        IF CellEq(c[k].KeyOdds, key)
        THEN [c[k] EXCEPT !.Back_Model = Str(c[k].Back_Model.s \o back.s),
                          !.Indicators_Model = Str(c[k].Indicators_Model.s \o ind.s)]
        ELSE c[k]]

\* an overwrite that writes Back_Model only and keeps the stored Indicators_Model
OverwriteBackOnly(c, key, back, ind) ==
    [k \in 1..Len(c) |->
        IF CellEq(c[k].KeyOdds, key) THEN [c[k] EXCEPT !.Back_Model = back] ELSE c[k]]

\* df_cache.loc[df_cache["KeyOdds"] == keyodds, ["Back_Model", "Indicators_Model"]] = [...]
Overwrite(c, key, back, ind) ==
    [k \in 1..Len(c) |->
        IF CellEq(c[k].KeyOdds, key)
        THEN [c[k] EXCEPT !.Back_Model = back, !.Indicators_Model = ind]
        ELSE c[k]]

\* an upsert that keeps nothing
cache_upsert_drop(c, key, back, ind) == c

\* an upsert that appends without looking for the key
cache_upsert_append(c, key, back, ind) ==
    IF c = <<>> THEN <<UpsertRow(key, back, ind)>>
    ELSE SortRows(Append(c, UpsertRow(key, back, ind)))

\* cache_upsert(df_cache, keyodds, back_val, indic_val) for a key that splits
cache_upsert(c, key, back, ind) ==
    IF c = <<>> THEN <<UpsertRow(key, back, ind)>>
    ELSE IF MatchRows(c, key) = {}
         THEN SortRows(Append(c, UpsertRow(key, back, ind)))
         ELSE SortRows(Overwrite(c, key, back, ind))

\* ------------------------------------------------------------------ inputs
\* Odds triples of the input rows and of the persisted cache, in hundredths.
Triples == { <<210, 340, 320>>, <<1000, 340, 125>> }

\* KeyOdds of a row whose key column holds the formatted triple
KeyOf(tr) == Str(KeyChars(tr[1], tr[2], tr[3]))

\* One row of df_in: load_input_df makes the three odds numeric and drops
\* the rows without them; an empty KeyOdds field is read as NaN.
InRow(tr, key) ==
    [Odd_Back_H |-> Num(tr[1]), Odd_Back_D |-> Num(tr[2]), Odd_Back_A |-> Num(tr[3]),
     KeyOdds |-> key]

InputRows ==
    {InRow(tr, KeyOf(tr)) : tr \in Triples} \cup {InRow(<<210, 340, 320>>, NaN)}

\* Texts of the persisted cache and of the form-submission agent.
CachedBack == Str(<<"c","b">>)
CachedInd  == Str(<<"c","i">>)
NoneText   == Str(<<"n","o","n","e">>)
BlankText  == Str(<<" ">>)
FreshBack  == Str(<<"B","A","C","K"," ","O","K">>)
FreshInd   == Str(<<"I","N","D"," ","O","K">>)
EmptyText  == Str(<<>>)
NanText    == Str(<<"N","a","N">>)

\* Result fields of a persisted record as pd.read_csv returns them: a missing
\* field is NaN; a text that is none of read_csv's NA markers stays a string.
LoadedFills ==
    { <<CachedBack, CachedInd>>, <<NaN, CachedInd>>, <<CachedBack, NaN>>,
      <<NoneText, CachedInd>>, <<CachedBack, BlankText>> }

\* A record of the cache as load_cache_df returns it: pd.to_numeric has made
\* the three odds columns numeric.
LoadedRec(tr, fill) ==
    Rec(Num(tr[1]), Num(tr[2]), Num(tr[3]), fill[1], fill[2], KeyOf(tr))

\* The caches load_cache_df can return: no file (empty), or the records of the
\* persisted store, one per key, in the order of the file.
LoadedCaches ==
    {<<>>}
    \cup {<<LoadedRec(tr, f)>> : tr \in Triples, f \in LoadedFills}
    \cup {<<LoadedRec(p[1], f), LoadedRec(p[2], g)>> :
            p \in {q \in Triples \X Triples : q[1] # q[2]},
            f \in LoadedFills, g \in LoadedFills}

\* What run_omqb_for_odds returns when it returns: the two alert texts.
WorkResults ==
    { <<FreshBack, FreshInd>>, <<EmptyText, FreshInd>>, <<FreshBack, NanText>> }

\* Exceptions login_if_needed / run_omqb_for_odds / build_driver raise.
WorkFaults == {"WebDriverException"}

\* ------------------------------------------------------------------ reclamation
\* How a driver and its service process behave when resilient_quit is called:
\*   quit   driver.quit() returns within hard_kill_after ("ok"), raises, or hangs
\*   proc   driver.service.process exists and poll() is None ("alive"), or not
\*   term   after proc.terminate() and the pause the process has "exited" or is
\*          still "alive", or terminate() raised
\*   kill   proc.kill() returns ("ok") or raises
\*   pkill  subprocess.run(["pkill", "-f", "chromedriver"]) returns ("ok") or raises
QuitEnv(q, p, t, k, s) == [quit |-> q, proc |-> p, term |-> t, kill |-> k, pkill |-> s]

QuitEnvs ==
    {QuitEnv(q, p, t, k, s) :
        q \in {"ok", "raise", "hang"}, p \in {"alive", "gone"},
        t \in {"exited", "alive", "raise"}, k \in {"ok", "raise"}, s \in {"ok", "raise"}}

\* a driver that quits in time
QuitOk == QuitEnv("ok", "alive", "exited", "ok", "ok")

\* The driver behaviours tried in a run of main: a driver that quits in time,
\* one whose quit raises and whose process cannot be terminated, and one that
\* hangs with every later step failing.
RunQuitEnvs ==
    { QuitOk, QuitEnv("raise", "alive", "raise", "ok", "ok"),
      QuitEnv("hang", "alive", "alive", "raise", "raise") }

\* A block of statements that has run: the steps it performed, and whether an
\* exception left it.
Ran(steps, exc) == [log |-> steps, exc |-> exc]

\* a try statement without an except clause: the exception leaves it
Reraise(block) == block

\* "try: <block> except Exception: pass"
Try(block) == Ran(block.log, FALSE)

\* block a, then block b unless an exception left a
Then(a, b) == IF a.exc THEN a ELSE Ran(a.log \o b.log, b.exc)

\* a hard kill that goes straight to proc.kill()
KillWithoutTerminate(env) == Ran(<<"kill">>, env.kill = "raise")

\* resilient_quit: "proc.terminate(); time.sleep(0.5); if proc.poll() is None: proc.kill()"
TerminateThenKill(env) ==
    IF env.term = "raise" THEN Ran(<<"terminate">>, TRUE)
    ELSE IF env.term = "exited" THEN Ran(<<"terminate">>, FALSE)
    ELSE Ran(<<"terminate", "kill">>, env.kill = "raise")

\* resilient_quit: the hard-kill block, "if proc and proc.poll() is None:" in its
\* two nested try statements
HardKill(env) ==
    Try(IF env.proc = "alive" THEN Try(TerminateThenKill(env)) ELSE Ran(<<>>, FALSE))

\* resilient_quit: plan C, pkill of chromedriver in its try statement
PlanC(env) == Try(Ran(<<"pkill">>, env.pkill = "raise"))

\* resilient_quit(driver): driver.quit() in a daemon thread that swallows its
\* exception, joined for at most hard_kill_after seconds; "if done["ok"]: return";
\* otherwise the hard kill and plan C
resilient_quit(env) ==
    IF env.quit = "ok" THEN Ran(<<"quit">>, FALSE)
    ELSE Then(Ran(<<"quit">>, FALSE), Then(HardKill(env), PlanC(env)))

\* ------------------------------------------------------------------ state
VARIABLES
    df_in,        \* main: the input rows
    df_cache,     \* main: the in-memory cache
    cache0,       \* the cache as load_cache_df returned it (history)
    pc,           \* main: "prescan", "loop", "retry", "returned", "raised", "done", "aborted"
    idx,          \* main: position of the row the loop is at (1-based)
    rows,         \* main: the output rows
    cache_hits,   \* main: the hit counter
    need_scrape,  \* main: result of the pre-scan
    status,       \* per input row: "pending", "nokey", "hit", "scraped", "exhausted" (history)
    abort,        \* the uncaught exception that ended main, or "" (history)
    upserted,     \* positions of the rows cache_upsert was called for (history)
    attempt,      \* process_with_retry: the loop variable
    rpc,          \* process_with_retry: "idle", "loop", "wait", "exit"
    last_exc,     \* process_with_retry: last_exc ("" for None)
    ret,          \* process_with_retry: the value of the return statement, or NoResult
    worker,       \* the executor's thread: "idle", "running", "done"
    fut,          \* the future: NoResult, a pair of texts, or an exception
    started,      \* number of workers submitted by the current call (history)
    drv,          \* _do_one_attempt: the driver of the worker (0 for none), named by
                  \* the attempt whose build_driver call created it
    ended,        \* how fut.result ended in this attempt: "", "result", "deadline" (history)
    swept,        \* process_with_retry ran its pkill sweep for this attempt (history)
    saves,        \* number of save_cache_df calls (history)
    stored,       \* the records of the persisted cache store
    qenv,         \* resilient_quit alone: how the driver and its process behave
    qout,         \* resilient_quit alone: the outcome of the try block of _do_one_attempt
    qlog,         \* resilient_quit alone: the steps resilient_quit performed, in order
    qret,         \* resilient_quit alone: "", "returned", "raised"
    op,           \* the last cache operation applied on its own, with its result
    prev,         \* the cache before that operation
    leaked,       \* a driver build_driver created in this call was never handed to
                  \* resilient_quit (history)
    endlog,       \* the end-of-run steps main has called, in order (history)
    nin,          \* normalize_odds alone: the two triples it is applied to
    nout,         \* normalize_odds alone: its results
    lenv          \* load_cache_df alone: where the store is and the state of its file

vars == <<df_in, df_cache, cache0, pc, idx, rows, cache_hits, need_scrape, status,
          abort, upserted, attempt, rpc, last_exc, ret, worker, fut, started,
          drv, ended, swept, saves, stored, qenv, qout, qlog, qret, op, prev,
          leaked, endlog, nin, nout, lenv>>

endVars == <<saves, stored, endlog>>

aloneVars == <<nin, nout, lenv>>

quitVars == <<qenv, qout, qlog, qret>>

mainVars == <<df_in, df_cache, cache0, pc, idx, rows, cache_hits, need_scrape, status,
              abort, upserted>>

NoResult == [kind |-> "none", Back_Model |-> NaN, Indicators_Model |-> NaN, exc |-> ""]
Returned(b, i) == [kind |-> "value", Back_Model |-> b, Indicators_Model |-> i, exc |-> ""]
Raised(e) == [kind |-> "exc", Back_Model |-> NaN, Indicators_Model |-> NaN, exc |-> e]

\* normalize_odds alone, before a call
NoNorm == [step |-> "", rx |-> NoKey, ry |-> NoKey, again |-> NoKey]

NoTriples == [x |-> <<NoneIn, NoneIn, NoneIn>>, y |-> <<NoneIn, NoneIn, NoneIn>>]

\* load_cache_df alone: no store looked at
NoStore == [path |-> "", file |-> ""]

NoOp == [name |-> "none", key |-> NaN, Back_Model |-> NaN, Indicators_Model |-> NaN,
         outcome |-> ""]

RECURSIVE SeqsUpTo(_, _)
\* the sequences over S of length at most n
SeqsUpTo(S, n) ==
    IF n = 0 THEN {<<>>}
    ELSE LET shorter == SeqsUpTo(S, n - 1)
         IN  shorter \cup {Append(s, x) : s \in {q \in shorter : Len(q) = n - 1}, x \in S}

\* main, up to the pre-scan: load_input_df and load_cache_df have returned
Init ==
    /\ df_in \in SeqsUpTo(InputRows, MaxItems)
    /\ df_cache \in LoadedCaches
    /\ cache0 = df_cache
    /\ pc = "prescan"
    /\ idx = 1
    /\ rows = <<>>
    /\ cache_hits = 0
    /\ need_scrape = FALSE
    /\ status = [k \in 1..Len(df_in) |-> "pending"]
    /\ abort = ""
    /\ upserted = {}
    /\ attempt = 0
    /\ rpc = "idle"
    /\ last_exc = ""
    /\ ret = NoResult
    /\ worker = "idle"
    /\ fut = NoResult
    /\ started = 0
    /\ drv = 0
    /\ ended = ""
    /\ swept = FALSE
    /\ leaked = FALSE
    /\ endlog = <<>>
    /\ nin = NoTriples
    /\ nout = NoNorm
    /\ lenv = NoStore
    /\ saves = 0
    /\ stored = df_cache
    /\ qenv = QuitOk
    /\ qout = NoResult
    /\ qlog = <<>>
    /\ qret = ""
    /\ op = NoOp
    /\ prev = <<>>

\* ------------------------------------------------------------------ main
RECURSIVE PreScanFrom(_, _, _)
\* the pre-scan loop from row j on: "raise" when a lookup raises, "miss" when a
\* lookup returns None (need_scrape = True; break), "all" when every row is cached
PreScanFrom(rs, c, j) ==
    IF j > Len(rs) THEN "all"
    ELSE IF LookupRaises(c, rs[j].KeyOdds) THEN "raise"
    ELSE IF cache_lookup(c, rs[j].KeyOdds).kind = "none" THEN "miss"
    ELSE PreScanFrom(rs, c, j + 1)

\* main: the pre-scan that decides need_scrape
PreScan ==
    /\ pc = "prescan"
    /\ LET r == PreScanFrom(df_in, df_cache, 1)
       IN  IF r = "raise"
           THEN /\ pc' = "aborted"
                /\ abort' = "NameError"
                /\ UNCHANGED need_scrape
           ELSE /\ pc' = "loop"
                /\ need_scrape' = (r = "miss")
                /\ UNCHANGED abort
    /\ UNCHANGED <<df_in, df_cache, cache0, idx, rows, cache_hits, status,
                   attempt, rpc, last_exc, ret, worker, fut, started, drv, ended, swept>>
    /\ UNCHANGED <<upserted, op, prev, endVars, quitVars, aloneVars, leaked>>

\* out_row = dict(row) plus the two result fields
OutRow(j, back, ind) == [item |-> j, Back_Model |-> back, Indicators_Model |-> ind]

\* main: one pass of the row loop up to the call of process_with_retry
ProcessItem ==
    /\ pc = "loop"
    /\ idx <= Len(df_in)
    /\ LET key == df_in[idx].KeyOdds
           cached == cache_lookup(df_cache, key)
       IN  IF Falsy(key)
           THEN /\ status' = [status EXCEPT ![idx] = "nokey"]
                /\ idx' = idx + 1
                /\ UNCHANGED <<pc, abort, rows, cache_hits, attempt, rpc, last_exc, started>>
           ELSE IF LookupRaises(df_cache, key)
           THEN /\ pc' = "aborted"
                /\ abort' = "NameError"
                /\ UNCHANGED <<status, idx, rows, cache_hits, attempt, rpc, last_exc, started>>
           ELSE IF IsHit(cached)
           THEN /\ rows' = Append(rows, OutRow(idx, cached.Back_Model, cached.Indicators_Model))
                /\ cache_hits' = cache_hits + 1
                /\ status' = [status EXCEPT ![idx] = "hit"]
                /\ idx' = idx + 1
                /\ UNCHANGED <<pc, abort, attempt, rpc, last_exc, started>>
           ELSE /\ pc' = "retry"
                /\ rpc' = "loop"
                /\ attempt' = 0
                /\ last_exc' = ""
                /\ started' = 0
                /\ UNCHANGED <<status, idx, rows, cache_hits, abort>>
    /\ UNCHANGED <<df_in, df_cache, cache0, need_scrape, ret, worker, fut, drv, ended, swept>>
    /\ UNCHANGED <<upserted, op, prev, endVars, quitVars, aloneVars, leaked>>

\* ------------------------------------------------------------------ retry
retryVars == <<attempt, rpc, last_exc, ret, worker, fut, started, drv, ended, swept>>

\* a loop that runs one pass more than max_attempts
AttemptRangeOffByOne == 1..(MAX_ATTEMPTS + 1)

\* process_with_retry: range(1, max_attempts + 1)
AttemptRange == 1..MAX_ATTEMPTS

\* process_with_retry: "fut = ex.submit(_do_one_attempt, h, d, a)" of the next
\* pass of "for attempt in range(1, max_attempts + 1)"
StartAttempt ==
    /\ pc = "retry"
    /\ rpc = "loop"
    /\ attempt + 1 \in AttemptRange
    /\ attempt' = attempt + 1
    /\ worker' = "running"
    /\ fut' = NoResult
    /\ started' = started + 1
    /\ rpc' = "wait"
    /\ drv' = 0
    /\ ended' = ""
    /\ swept' = FALSE
    /\ UNCHANGED <<mainVars, last_exc, ret>>
    /\ UNCHANGED <<op, prev, endVars, quitVars, aloneVars, leaked>>

\* a driver pool that hands the first session to every attempt
ReusedDriver(n) == 1

\* build_driver() in the worker of attempt n: webdriver.Chrome(options=opts)
\* starts a new browser session, named here by the attempt that made it
FreshDriver(n) == n

\* _do_one_attempt after run_omqb_for_odds returned (back_val, indic_val), a
\* check that looks at back_val only
AttemptOutcomeBackOnly(res) ==
    IF IsFilled(res[1]) THEN Returned(res[1], res[2]) ELSE Raised("RuntimeError")

\* _do_one_attempt after run_omqb_for_odds returned (back_val, indic_val)
AttemptOutcome(res) ==
    IF IsFilled(res[1]) /\ IsFilled(res[2])
    THEN Returned(res[1], res[2])
    ELSE Raised("RuntimeError")

\* _do_one_attempt: "finally: try: resilient_quit(drv) except Exception: pass"
\* after the try block ended with out; an exception leaving the finally clause
\* would replace out
DoOneAttemptEnds(out, env) ==
    IF Try(resilient_quit(env)).exc THEN Raised("Exception") ELSE out

\* the worker thread: "drv = build_driver()" returns
WorkerBuilds ==
    /\ worker = "running"
    /\ drv = 0
    /\ drv' = FreshDriver(attempt)
    /\ UNCHANGED <<mainVars, attempt, rpc, last_exc, ret, worker, fut, started, ended, swept>>
    /\ UNCHANGED <<op, prev, endVars, quitVars, aloneVars, leaked>>

\* the worker thread: build_driver() raises; the try statement is not entered
WorkerBuildFails ==
    /\ worker = "running"
    /\ drv = 0
    /\ \E e \in WorkFaults : fut' = Raised(e)
    /\ \E made \in BOOLEAN : leaked' = (leaked \/ made)
    /\ worker' = "done"
    /\ UNCHANGED <<mainVars, attempt, rpc, last_exc, ret, started, drv, ended, swept>>
    /\ UNCHANGED <<op, prev, endVars, quitVars, aloneVars>>

\* the worker thread: the work function returns, the result is checked, the
\* finally clause quits the driver and _do_one_attempt ends
WorkerReturns ==
    /\ worker = "running"
    /\ drv # 0
    /\ \E res \in WorkResults, env \in RunQuitEnvs :
          fut' = DoOneAttemptEnds(AttemptOutcome(res), env)
    /\ worker' = "done"
    /\ drv' = 0
    /\ UNCHANGED <<mainVars, attempt, rpc, last_exc, ret, started, ended, swept>>
    /\ UNCHANGED <<op, prev, endVars, quitVars, aloneVars, leaked>>

\* the worker thread: the login or a form submission raises, the finally clause
\* quits the driver and _do_one_attempt ends
WorkerFaults ==
    /\ worker = "running"
    /\ drv # 0
    /\ \E e \in WorkFaults, env \in RunQuitEnvs : fut' = DoOneAttemptEnds(Raised(e), env)
    /\ worker' = "done"
    /\ drv' = 0
    /\ UNCHANGED <<mainVars, attempt, rpc, last_exc, ret, started, ended, swept>>
    /\ UNCHANGED <<op, prev, endVars, quitVars, aloneVars, leaked>>

\* "except cf.TimeoutError" selects by the class of the exception
IsTimeoutError(e) == e = "TimeoutError"

\* an except clause that keeps the first failure of the call
AttemptResultKeepsFirst ==
    /\ pc = "retry"
    /\ rpc = "wait"
    /\ worker = "done"
    /\ IF fut.kind = "value"
       THEN ret' = fut /\ UNCHANGED <<last_exc, swept>>
       ELSE /\ last_exc' = IF last_exc = "" THEN fut.exc ELSE last_exc
            /\ swept' = IsTimeoutError(fut.exc)
            /\ UNCHANGED ret
    /\ ended' = "result"
    /\ rpc' = "exit"
    /\ UNCHANGED <<mainVars, attempt, worker, fut, started, drv>>
    /\ UNCHANGED <<op, prev, endVars, quitVars, aloneVars, leaked>>

\* process_with_retry: fut.result(timeout=attempt_timeout) ends because the
\* future is done: "return" its value, or the except clause for its exception
\* (the pkill sweep is in the clause for cf.TimeoutError)
AttemptResult ==
    /\ pc = "retry"
    /\ rpc = "wait"
    /\ worker = "done"
    /\ IF fut.kind = "value"
       THEN ret' = fut /\ UNCHANGED <<last_exc, swept>>
       ELSE /\ last_exc' = fut.exc
            /\ swept' = IsTimeoutError(fut.exc)
            /\ UNCHANGED ret
    /\ ended' = "result"
    /\ rpc' = "exit"
    /\ UNCHANGED <<mainVars, attempt, worker, fut, started, drv>>
    /\ UNCHANGED <<op, prev, endVars, quitVars, aloneVars, leaked>>

\* a deadline handler without the pkill sweep
AttemptTimeoutNoSweep ==
    /\ pc = "retry"
    /\ rpc = "wait"
    /\ worker = "running"
    /\ last_exc' = "TimeoutError"
    /\ ended' = "deadline"
    /\ rpc' = "exit"
    /\ UNCHANGED <<mainVars, attempt, ret, worker, fut, started, drv, swept>>
    /\ UNCHANGED <<op, prev, endVars, quitVars, aloneVars, leaked>>

\* process_with_retry: fut.result(timeout=attempt_timeout) ends because the
\* deadline elapsed with the worker still running: "except cf.TimeoutError",
\* with its pkill of chromedriver and chrome
AttemptTimeout ==
    /\ pc = "retry"
    /\ rpc = "wait"
    /\ worker = "running"
    /\ last_exc' = "TimeoutError"
    /\ ended' = "deadline"
    /\ swept' = TRUE
    /\ rpc' = "exit"
    /\ UNCHANGED <<mainVars, attempt, ret, worker, fut, started, drv>>
    /\ UNCHANGED <<op, prev, endVars, quitVars, aloneVars, leaked>>

\* a coordinator that takes the value an abandoned worker returned in the end
ExitWithTakesLate ==
    /\ pc = "retry"
    /\ rpc = "exit"
    /\ worker = "done"
    /\ worker' = "idle"
    /\ fut' = NoResult
    /\ ended' = ""
    /\ swept' = FALSE
    /\ ret' = IF fut.kind = "value" THEN fut ELSE ret
    /\ IF ret.kind = "value" \/ fut.kind = "value"
       THEN pc' = "returned" /\ rpc' = "idle"
       ELSE IF attempt + 1 \in AttemptRange
       THEN pc' = pc /\ rpc' = "loop"
       ELSE pc' = "raised" /\ rpc' = "idle"
    /\ UNCHANGED <<df_in, df_cache, cache0, idx, rows, cache_hits, need_scrape, status,
                   abort, attempt, last_exc, started, drv>>
    /\ UNCHANGED <<upserted, op, prev, endVars, quitVars, aloneVars, leaked>>

\* an executor that is left with shutdown(wait=False)
ExitWithNoWait ==
    /\ pc = "retry"
    /\ rpc = "exit"
    /\ UNCHANGED <<worker, fut, drv>>
    /\ ended' = ""
    /\ swept' = FALSE
    /\ IF ret.kind = "value"
       THEN pc' = "returned" /\ rpc' = "idle"
       ELSE IF attempt + 1 \in AttemptRange
       THEN pc' = pc /\ rpc' = "loop"
       ELSE pc' = "raised" /\ rpc' = "idle"
    /\ UNCHANGED <<df_in, df_cache, cache0, idx, rows, cache_hits, need_scrape, status,
                   abort, attempt, last_exc, ret, started>>
    /\ UNCHANGED <<upserted, op, prev, endVars, quitVars, aloneVars, leaked>>

\* process_with_retry: the end of "with cf.ThreadPoolExecutor(max_workers=1) as ex":
\* the executor's __exit__ is shutdown(wait=True), which joins the worker thread.
\* Then the return statement completes, or the loop goes on, or it is over and
\* "raise last_exc" runs.
ExitWith ==
    /\ pc = "retry"
    /\ rpc = "exit"
    /\ worker = "done"
    /\ worker' = "idle"
    /\ fut' = NoResult
    /\ ended' = ""
    /\ swept' = FALSE
    /\ IF ret.kind = "value"
       THEN pc' = "returned" /\ rpc' = "idle"
       ELSE IF attempt + 1 \in AttemptRange
       THEN pc' = pc /\ rpc' = "loop"
       ELSE pc' = "raised" /\ rpc' = "idle"
    /\ UNCHANGED <<df_in, df_cache, cache0, idx, rows, cache_hits, need_scrape, status,
                   abort, attempt, last_exc, ret, started, drv>>
    /\ UNCHANGED <<upserted, op, prev, endVars, quitVars, aloneVars, leaked>>

\* main: process_with_retry returned (back_val, indic_val): cache_upsert and
\* the output row
ItemScraped ==
    /\ pc = "returned"
    /\ LET key == df_in[idx].KeyOdds
       IN  IF UpsertRaises(key)
           THEN /\ pc' = "aborted"
                /\ abort' = IF key.t # "str" THEN "AttributeError" ELSE "ValueError"
                /\ UNCHANGED <<df_cache, rows, status, idx>>
           ELSE /\ df_cache' = cache_upsert(df_cache, key, ret.Back_Model, ret.Indicators_Model)
                /\ rows' = Append(rows, OutRow(idx, ret.Back_Model, ret.Indicators_Model))
                /\ status' = [status EXCEPT ![idx] = "scraped"]
                /\ idx' = idx + 1
                /\ pc' = "loop"
                /\ UNCHANGED abort
    /\ upserted' = upserted \cup {idx}
    /\ ret' = NoResult
    /\ leaked' = FALSE
    /\ UNCHANGED <<df_in, cache0, cache_hits, need_scrape,
                   attempt, rpc, last_exc, worker, fut, started, drv, ended, swept>>
    /\ UNCHANGED <<op, prev, endVars, quitVars, aloneVars>>

\* a failure handler that stores a record without texts for the row
ItemFailedWritesPartial ==
    /\ pc = "raised"
    /\ status' = [status EXCEPT ![idx] = "exhausted"]
    /\ idx' = idx + 1
    /\ pc' = "loop"
    /\ df_cache' = IF UpsertRaises(df_in[idx].KeyOdds) THEN df_cache
                   ELSE cache_upsert(df_cache, df_in[idx].KeyOdds, NaN, NaN)
    /\ upserted' = upserted \cup {idx}
    /\ leaked' = FALSE
    /\ UNCHANGED <<df_in, cache0, rows, cache_hits, need_scrape, abort, retryVars>>
    /\ UNCHANGED <<op, prev, endVars, quitVars, aloneVars>>

\* main: process_with_retry raised: "except Exception ... continue"
ItemFailed ==
    /\ pc = "raised"
    /\ status' = [status EXCEPT ![idx] = "exhausted"]
    /\ idx' = idx + 1
    /\ pc' = "loop"
    /\ leaked' = FALSE
    /\ UNCHANGED <<df_in, df_cache, cache0, rows, cache_hits, need_scrape, abort, retryVars>>
    /\ UNCHANGED <<upserted, op, prev, endVars, quitVars, aloneVars>>

\* Outcomes of a write to the store (S3 put_object or a local file).
WriteOutcomes == {"ok", "raise"}

\* main: after the loop, "df_out = pd.DataFrame(rows); save_output_df(df_out)"
Finish ==
    /\ pc = "loop"
    /\ idx > Len(df_in)
    /\ \E w \in WriteOutcomes :
          IF w = "ok"
          THEN pc' = "save_cache" /\ UNCHANGED abort
          ELSE pc' = "aborted" /\ abort' = "WriteError"
    /\ endlog' = Append(endlog, "output")
    /\ UNCHANGED <<df_in, df_cache, cache0, idx, rows, cache_hits, need_scrape, status,
                   retryVars>>
    /\ UNCHANGED <<upserted, op, prev, saves, stored, quitVars, aloneVars, leaked>>

\* main: "save_cache_df(df_cache)" writes df[CACHE_COLS] over the store
SaveCache ==
    /\ pc = "save_cache"
    /\ saves' = saves + 1
    /\ \E w \in WriteOutcomes :
          IF w = "ok"
          THEN pc' = "report" /\ stored' = df_cache /\ UNCHANGED abort
          ELSE pc' = "aborted" /\ abort' = "WriteError" /\ UNCHANGED stored
    /\ endlog' = Append(endlog, "cache")
    /\ UNCHANGED <<df_in, df_cache, cache0, idx, rows, cache_hits, need_scrape, status,
                   retryVars>>
    /\ UNCHANGED <<upserted, op, prev, quitVars, aloneVars, leaked>>

\* main: the HTML page of unresolved odds: "s3_write_text(...)" (or the local
\* file) can raise; publish_email keeps its own failures to itself
PublishReport ==
    /\ pc = "report"
    /\ \E w \in WriteOutcomes :
          IF w = "ok"
          THEN pc' = "notify" /\ UNCHANGED abort
          ELSE pc' = "aborted" /\ abort' = "WriteError"
    /\ endlog' = Append(endlog, "report")
    /\ UNCHANGED <<df_in, df_cache, cache0, idx, rows, cache_hits, need_scrape, status,
                   retryVars>>
    /\ UNCHANGED <<upserted, op, prev, saves, stored, quitVars, aloneVars, leaked>>

\* main: "notify_shutdown(STOP_TOPIC_ARN)": sns.publish with no handler
NotifyShutdown ==
    /\ pc = "notify"
    /\ \E w \in WriteOutcomes :
          IF w = "ok"
          THEN pc' = "done" /\ UNCHANGED abort
          ELSE pc' = "aborted" /\ abort' = "WriteError"
    /\ endlog' = Append(endlog, "notify")
    /\ UNCHANGED <<df_in, df_cache, cache0, idx, rows, cache_hits, need_scrape, status,
                   retryVars>>
    /\ UNCHANGED <<upserted, op, prev, saves, stored, quitVars, aloneVars, leaked>>

Next ==
    \/ PreScan
    \/ ProcessItem
    \/ StartAttempt
    \/ WorkerBuilds
    \/ WorkerBuildFails
    \/ WorkerReturns
    \/ WorkerFaults
    \/ AttemptResult
    \/ AttemptTimeout
    \/ ExitWith
    \/ ItemScraped
    \/ ItemFailed
    \/ Finish
    \/ SaveCache
    \/ PublishReport
    \/ NotifyShutdown

Spec == Init /\ [][Next]_vars

\* ------------------------------------------------------------------ cache alone
\* The cache functions applied on their own: from a cache load_cache_df can
\* return, any sequence of cache_upsert and cache_lookup calls.

\* a triple that no persisted record has
NewTriple == <<185, 360, 450>>

UpsertKeys == {KeyOf(tr) : tr \in Triples \cup {NewTriple}}

\* result pairs handed to cache_upsert
UpsertPairs ==
    { <<FreshBack, FreshInd>>, <<CachedBack, FreshInd>>, <<EmptyText, FreshInd>> }

\* Keys that are empty or invalid: the empty string, a missing key (NaN), a
\* text that is no odds triple.
InvalidKeys == { Str(<<>>), NaN, Str(<<"x">>) }

LookupKeys == UpsertKeys \cup InvalidKeys

CacheInit ==
    /\ df_cache \in LoadedCaches
    /\ cache0 = df_cache
    /\ op = NoOp
    /\ prev = <<>>
    /\ df_in = <<>>
    /\ pc = "cache"
    /\ idx = 1
    /\ rows = <<>>
    /\ cache_hits = 0
    /\ need_scrape = FALSE
    /\ status = <<>>
    /\ abort = ""
    /\ upserted = {}
    /\ attempt = 0
    /\ rpc = "idle"
    /\ last_exc = ""
    /\ ret = NoResult
    /\ worker = "idle"
    /\ fut = NoResult
    /\ started = 0
    /\ drv = 0
    /\ ended = ""
    /\ swept = FALSE
    /\ leaked = FALSE
    /\ endlog = <<>>
    /\ nin = NoTriples
    /\ nout = NoNorm
    /\ lenv = NoStore
    /\ saves = 0
    /\ stored = df_cache
    /\ qenv = QuitOk
    /\ qout = NoResult
    /\ qlog = <<>>
    /\ qret = ""

runVars == <<df_in, cache0, pc, idx, rows, cache_hits, need_scrape, status, abort, upserted,
             attempt, rpc, last_exc, ret, worker, fut, started, drv, ended, swept,
             endVars, quitVars, aloneVars, leaked>>

\* df_cache = cache_upsert(df_cache, key, back, ind)
CacheUpsert ==
    /\ \E key \in UpsertKeys, pair \in UpsertPairs :
          /\ ~UpsertRaises(key)
          /\ df_cache' = cache_upsert(df_cache, key, pair[1], pair[2])
          /\ op' = [name |-> "upsert", key |-> key, Back_Model |-> pair[1],
                    Indicators_Model |-> pair[2], outcome |-> "ok"]
    /\ prev' = df_cache
    /\ UNCHANGED runVars

\* the cache_upsert call just made, made once more with the same arguments
CacheUpsertAgain ==
    /\ op.name \in {"upsert", "upsert again"}
    /\ df_cache' = cache_upsert(df_cache, op.key, op.Back_Model, op.Indicators_Model)
    /\ op' = [op EXCEPT !.name = "upsert again"]
    /\ prev' = df_cache
    /\ UNCHANGED runVars

\* cache_lookup(df_cache, key): raises, returns None, or returns the record's fields
CacheLookup ==
    /\ \E key \in LookupKeys :
          LET r == cache_lookup(df_cache, key)
          IN  op' = IF LookupRaises(df_cache, key)
                    THEN [name |-> "lookup", key |-> key, Back_Model |-> NaN,
                          Indicators_Model |-> NaN, outcome |-> "raise"]
                    ELSE [name |-> "lookup", key |-> key, Back_Model |-> r.Back_Model,
                          Indicators_Model |-> r.Indicators_Model, outcome |-> r.kind]
    /\ prev' = df_cache
    /\ UNCHANGED <<df_cache, runVars>>

CacheNext == CacheUpsert \/ CacheUpsertAgain \/ CacheLookup

CacheSpec == CacheInit /\ [][CacheNext]_vars

\* ------------------------------------------------------------------ reclamation alone
\* The finally clause of _do_one_attempt applied on its own: for every way the
\* try block can end and every behaviour of the driver and its process.

\* the ways the try block of _do_one_attempt ends
TryOutcomes ==
    {Returned(FreshBack, FreshInd), Raised("RuntimeError")} \cup {Raised(e) : e \in WorkFaults}

QuitInit ==
    /\ qenv \in QuitEnvs
    /\ qout \in TryOutcomes
    /\ qlog = <<>>
    /\ qret = ""
    /\ pc = "finally"
    /\ worker = "running"
    /\ drv = 1
    /\ fut = NoResult
    /\ df_in = <<>>
    /\ df_cache = <<>>
    /\ cache0 = <<>>
    /\ idx = 1
    /\ rows = <<>>
    /\ cache_hits = 0
    /\ need_scrape = FALSE
    /\ status = <<>>
    /\ abort = ""
    /\ upserted = {}
    /\ attempt = 1
    /\ rpc = "wait"
    /\ last_exc = ""
    /\ ret = NoResult
    /\ started = 1
    /\ ended = ""
    /\ swept = FALSE
    /\ leaked = FALSE
    /\ endlog = <<>>
    /\ nin = NoTriples
    /\ nout = NoNorm
    /\ lenv = NoStore
    /\ saves = 0
    /\ stored = <<>>
    /\ op = NoOp
    /\ prev = <<>>

\* _do_one_attempt: the finally clause calls resilient_quit(drv) and the
\* function ends with the outcome of its try block
Reclaim ==
    /\ pc = "finally"
    /\ worker = "running"
    /\ qlog' = resilient_quit(qenv).log
    /\ qret' = IF resilient_quit(qenv).exc THEN "raised" ELSE "returned"
    /\ fut' = DoOneAttemptEnds(qout, qenv)
    /\ worker' = "done"
    /\ drv' = 0
    /\ UNCHANGED <<mainVars, attempt, rpc, last_exc, ret, started, ended, swept>>
    /\ UNCHANGED <<qenv, qout, op, prev, endVars, aloneVars, leaked>>

QuitNext == Reclaim

QuitSpec == QuitInit /\ [][QuitNext]_vars

\* ------------------------------------------------------------------ normalize alone
\* normalize_odds applied on its own to two triples, and once more to the
\* rounded triple it returned.

\* Values for one price: the same number written as int, float and text, its
\* neighbours within and beyond half a hundredth, and values that are no
\* price. No value lies halfway between two hundredths.
OddsInputs ==
    { IntIn(2), FloatIn("fin", FALSE, 2000), FloatIn("fin", FALSE, 2004),
      FloatIn("fin", FALSE, 2006), FloatIn("fin", FALSE, 3400),
      StrIn(<<"2">>), StrIn(<<"2", ".", "0">>), StrIn(<<"2", ".", "0", "0">>),
      StrIn(<<" ", "2", ".", "0", " ">>), StrIn(<<"1", ".", "9", "9", "6">>),
      StrIn(<<"2", ".", "0", "1">>),
      IntIn(0), IntIn(-2), FloatIn("fin", TRUE, 1500), FloatIn("fin", TRUE, 4),
      FloatIn("fin", FALSE, 4), StrIn(<<"-", "1", ".", "5">>),
      FloatIn("nan", FALSE, 0), FloatIn("inf", FALSE, 0), FloatIn("inf", TRUE, 0),
      StrIn(<<"n", "a", "n">>), StrIn(<<"I", "n", "f">>),
      StrIn(<<"a", "b", "c">>), StrIn(<<>>), NoneIn }

\* a triple with one price drawn from OddsInputs and the other two plain
OddsTriples ==
    {<<x, FloatIn("fin", FALSE, 3400), FloatIn("fin", FALSE, 3200)>> : x \in OddsInputs}
    \cup {<<FloatIn("fin", FALSE, 2100), x, FloatIn("fin", FALSE, 3200)>> : x \in OddsInputs}
    \cup {<<FloatIn("fin", FALSE, 2100), FloatIn("fin", FALSE, 3400), x>> : x \in OddsInputs}

NormInit ==
    /\ nin \in [x : OddsTriples, y : OddsTriples]
    /\ nout = NoNorm
    /\ pc = "normalize"
    /\ lenv = NoStore
    /\ df_in = <<>>
    /\ df_cache = <<>>
    /\ cache0 = <<>>
    /\ idx = 1
    /\ rows = <<>>
    /\ cache_hits = 0
    /\ need_scrape = FALSE
    /\ status = <<>>
    /\ abort = ""
    /\ upserted = {}
    /\ attempt = 0
    /\ rpc = "idle"
    /\ last_exc = ""
    /\ ret = NoResult
    /\ worker = "idle"
    /\ fut = NoResult
    /\ started = 0
    /\ drv = 0
    /\ ended = ""
    /\ swept = FALSE
    /\ leaked = FALSE
    /\ endlog = <<>>
    /\ saves = 0
    /\ stored = <<>>
    /\ qenv = QuitOk
    /\ qout = NoResult
    /\ qlog = <<>>
    /\ qret = ""
    /\ op = NoOp
    /\ prev = <<>>

normVars == <<df_in, df_cache, cache0, pc, idx, rows, cache_hits, need_scrape, status, abort,
              upserted, attempt, rpc, last_exc, ret, worker, fut, started, drv, ended, swept,
              endVars, quitVars, op, prev, leaked, lenv>>

\* normalize_odds(h, d, a) of both triples, nd at its default
Normalize ==
    /\ pc = "normalize"
    /\ nout.step = ""
    /\ nout' = [step |-> "called",
                rx |-> normalize_odds(nin.x[1], nin.x[2], nin.x[3], CACHE_ROUND_DECIMALS),
                ry |-> normalize_odds(nin.y[1], nin.y[2], nin.y[3], CACHE_ROUND_DECIMALS),
                again |-> NoKey]
    /\ UNCHANGED <<normVars, nin>>

\* normalize_odds of the rounded triple the first call returned
NormalizeAgain ==
    /\ pc = "normalize"
    /\ nout.step = "called"
    /\ nout' = [nout EXCEPT !.step = "again",
                            !.again = normalize_odds(nout.rx.h, nout.rx.d, nout.rx.a,
                                                     CACHE_ROUND_DECIMALS)]
    /\ UNCHANGED <<normVars, nin>>

NormNext == Normalize \/ NormalizeAgain

NormSpec == NormInit /\ [][NormNext]_vars

\* ------------------------------------------------------------------ load alone
\* load_cache_df applied on its own, on both paths and for every state of the
\* store's file, followed by the pre-scan of main.

\* pd.to_numeric(df[c], errors="coerce") of one cell: a number stays, the text
\* of a finite number becomes that number (in hundredths), other texts become NaN
ToNumeric(x) ==
    LET f == PyFloat(StrIn(x.s))
    IN  IF x.t # "str" THEN x
        ELSE IF f.k = "fin" THEN Num((IF f.neg THEN -1 ELSE 1) * (f.m \div 10))
        ELSE NaN

\* the three odds columns after to_numeric
ToNumericRow(r) ==
    [r EXCEPT !.Odd_Back_H = ToNumeric(r.Odd_Back_H),
              !.Odd_Back_D = ToNumeric(r.Odd_Back_D),
              !.Odd_Back_A = ToNumeric(r.Odd_Back_A)]

\* load_cache_df, a readable store: read_csv and the to_numeric loop
LoadReadable(recs) == [exc |-> FALSE, df |-> [k \in 1..Len(recs) |-> ToNumericRow(recs[k])]]

\* load_cache_df: pd.DataFrame(columns=CACHE_COLS)
LoadEmpty == [exc |-> FALSE, df |-> <<>>]

\* load_cache_df(): on the S3 path every exception of s3_read_csv and of the
\* to_numeric loop is caught and the empty frame returned; on the local path an
\* absent file gives the empty frame, and read_csv of a file that exists is
\* under no handler
load_cache_df(env, recs) ==
    IF env.path = "s3"
    THEN IF env.file = "ok" THEN LoadReadable(recs) ELSE LoadEmpty
    ELSE IF env.file = "absent" THEN LoadEmpty
    ELSE IF env.file = "unreadable" THEN [exc |-> TRUE, df |-> <<>>]
    ELSE LoadReadable(recs)

\* where the store is, and the state of its file
StoreEnvs == [path : {"s3", "local"}, file : {"absent", "unreadable", "ok"}]

\* a store whose first price column holds a text that is no number
TextStore ==
    << Rec(Str(<<"x">>), Num(340), Num(320), CachedBack, CachedInd,
           KeyOf(<<210, 340, 320>>)) >>

\* the contents a store's file can have
Stores == LoadedCaches \cup {TextStore}

LoadInit ==
    /\ lenv \in StoreEnvs
    /\ stored \in Stores
    /\ df_in \in SeqsUpTo(InputRows, 1)
    /\ status = [k \in 1..Len(df_in) |-> "pending"]
    /\ pc = "load"
    /\ df_cache = <<>>
    /\ cache0 = <<>>
    /\ nin = NoTriples
    /\ nout = NoNorm
    /\ idx = 1
    /\ rows = <<>>
    /\ cache_hits = 0
    /\ need_scrape = FALSE
    /\ abort = ""
    /\ upserted = {}
    /\ attempt = 0
    /\ rpc = "idle"
    /\ last_exc = ""
    /\ ret = NoResult
    /\ worker = "idle"
    /\ fut = NoResult
    /\ started = 0
    /\ drv = 0
    /\ ended = ""
    /\ swept = FALSE
    /\ leaked = FALSE
    /\ endlog = <<>>
    /\ saves = 0
    /\ qenv = QuitOk
    /\ qout = NoResult
    /\ qlog = <<>>
    /\ qret = ""
    /\ op = NoOp
    /\ prev = <<>>

\* main: "df_cache = load_cache_df()"
LoadCache ==
    /\ pc = "load"
    /\ LET r == load_cache_df(lenv, stored)
       IN  IF r.exc
           THEN pc' = "aborted" /\ abort' = "ReadError" /\ UNCHANGED <<df_cache, cache0>>
           ELSE pc' = "prescan" /\ df_cache' = r.df /\ cache0' = r.df /\ UNCHANGED abort
    /\ UNCHANGED <<df_in, idx, rows, cache_hits, need_scrape, status, retryVars>>
    /\ UNCHANGED <<upserted, op, prev, endVars, quitVars, aloneVars, leaked>>

LoadNext == LoadCache \/ PreScan

LoadSpec == LoadInit /\ [][LoadNext]_vars

\* ------------------------------------------------------------------ falsy keys
\* A run of main over input lists that can also hold a row whose KeyOdds cell
\* is false for Python: a KeyOdds column that read_csv parsed as numbers, with
\* the value 0 in the row.
ZeroKeyRow == InRow(<<210, 340, 320>>, Num(0))

\* the input lists of these runs: no row or one row
ScanInputs == {<<>>} \cup {<<r>> : r \in InputRows \cup {ZeroKeyRow}}

ScanInit ==
    /\ df_in \in ScanInputs
    /\ df_cache \in LoadedCaches
    /\ cache0 = df_cache
    /\ pc = "prescan"
    /\ idx = 1
    /\ rows = <<>>
    /\ cache_hits = 0
    /\ need_scrape = FALSE
    /\ status = [k \in 1..Len(df_in) |-> "pending"]
    /\ abort = ""
    /\ upserted = {}
    /\ attempt = 0
    /\ rpc = "idle"
    /\ last_exc = ""
    /\ ret = NoResult
    /\ worker = "idle"
    /\ fut = NoResult
    /\ started = 0
    /\ drv = 0
    /\ ended = ""
    /\ swept = FALSE
    /\ leaked = FALSE
    /\ endlog = <<>>
    /\ nin = NoTriples
    /\ nout = NoNorm
    /\ lenv = NoStore
    /\ saves = 0
    /\ stored = df_cache
    /\ qenv = QuitOk
    /\ qout = NoResult
    /\ qlog = <<>>
    /\ qret = ""
    /\ op = NoOp
    /\ prev = <<>>

ScanSpec == ScanInit /\ [][Next]_vars

\* ------------------------------------------------------------------ claims
\* C1: an attempt whose worker has not returned when the deadline elapses is
\* reported as a Timeout, and process_with_retry goes on (to the next attempt
\* or to raising) without waiting for that worker: whenever the coordinator has
\* left fut.result with the worker still running, its last failure is the
\* Timeout and its next step can be taken.
C1_TimeoutDoesNotWait ==
    (pc = "retry" /\ rpc = "exit" /\ worker = "running")
        => (last_exc = "TimeoutError" /\ ENABLED ExitWith)

\* C2: a cache hit is given only for a record whose two result fields are both
\* present (not NaN, and after trimming neither empty nor "nan", "null",
\* "none" in any letter case): every output row the orchestrator took from the
\* cache carries two present texts.
C2_HitOnlyIfComplete ==
    \A k \in 1..Len(rows) :
        status[rows[k].item] = "hit"
            => (IsFilled(rows[k].Back_Model) /\ IsFilled(rows[k].Indicators_Model))

\* C3: cache_lookup with an empty or invalid key returns None without raising,
\* on every cache state, the empty cache included.
C3_InvalidKeyIsMiss ==
    (op.name = "lookup" /\ op.key \in InvalidKeys) => op.outcome = "none"

\* the records of cache c stored under the key of input row j
RecordsFor(c, j) == {c[k] : k \in MatchRows(c, df_in[j].KeyOdds)}

\* input row j is in the output
InOutput(j) == \E k \in 1..Len(rows) : rows[k].item = j

\* C4 as stated: at the end of the run an item whose retries were exhausted is
\* not in the output, cache_upsert was not called for it, and the cache holds
\* no new or changed record for its key.
C4_ExhaustedKeyUntouched ==
    pc = "done" =>
        \A j \in 1..Len(df_in) :
            status[j] = "exhausted"
                => /\ ~InOutput(j)
                   /\ j \notin upserted
                   /\ RecordsFor(df_cache, j) = RecordsFor(cache0, j)

\* another row with the key of row j was scraped successfully in this run
ScrapedUnderSameKey(j) ==
    \E i \in 1..Len(df_in) :
        i # j /\ status[i] = "scraped" /\ CellEq(df_in[i].KeyOdds, df_in[j].KeyOdds)

\* C4 amended: at the end of the run an item whose retries were exhausted is
\* not in the output, cache_upsert was not called for it, and the cache holds
\* no new or changed record for its key unless another item with the same key
\* was scraped successfully in the run.
C4_ExhaustedItemWritesNothing ==
    pc = "done" =>
        \A j \in 1..Len(df_in) :
            status[j] = "exhausted"
                => /\ ~InOutput(j)
                   /\ j \notin upserted
                   /\ (~ScrapedUnderSameKey(j)
                         => RecordsFor(df_cache, j) = RecordsFor(cache0, j))

\* C4 witness: a finished run in which one item was exhausted, its key is one
\* the cache can hold, and another item was scraped and stored.
C4_Witness ==
    /\ pc = "done"
    /\ \E j, i \in 1..Len(df_in) :
          /\ status[j] = "exhausted"
          /\ df_in[j].KeyOdds.t = "str"
          /\ status[i] = "scraped"
          /\ df_cache # cache0

\* the cache holds a complete record for the key: both result fields present
CompleteRecord(c, key) ==
    \E k \in MatchRows(c, key) :
        IsFilled(c[k].Back_Model) /\ IsFilled(c[k].Indicators_Model)

\* C5: when the row the loop is at has a complete record in the cache, the
\* step that processes it starts no retry call and no worker, adds exactly one
\* to the hit counter, and appends the row with the cached texts.
C5_HitUsesCache ==
    [][ (pc = "loop" /\ idx <= Len(df_in) /\ CompleteRecord(df_cache, df_in[idx].KeyOdds))
          => LET k == CHOOSE m \in MatchRows(df_cache, df_in[idx].KeyOdds) : TRUE
             IN  /\ pc' = "loop"
                 /\ idx' = idx + 1
                 /\ rpc' = "idle" /\ worker' = "idle" /\ started' = started
                 /\ cache_hits' = cache_hits + 1
                 /\ rows' = Append(rows, OutRow(idx, df_cache[k].Back_Model,
                                                df_cache[k].Indicators_Model))
                 /\ df_cache' = df_cache ]_vars

\* C5 witness: a row was served from a complete cache record.
C5_Witness ==
    \E k \in 1..Len(rows) :
        /\ status[rows[k].item] = "hit"
        /\ CompleteRecord(cache0, df_in[rows[k].item].KeyOdds)
        /\ cache_hits >= 1

\* C6: a run started with an empty cache and one work item does not end before
\* the work function was tried, and when the item is scraped (whatever number
\* of timed-out attempts came first) the run finishes with the item in the
\* output with the fresh texts, exactly one cache record, stored under the
\* item's key with both fields set, and a hit counter of 0.
C6_FreshScrapeFromEmptyCache ==
    (cache0 = <<>> /\ Len(df_in) = 1 /\ df_in[1].KeyOdds.t = "str")
        => /\ (started = 0 => pc # "aborted")
           /\ (pc = "done" /\ status[1] = "scraped")
                 => /\ Len(rows) = 1
                    /\ IsFilled(rows[1].Back_Model) /\ IsFilled(rows[1].Indicators_Model)
                    /\ Len(df_cache) = 1
                    /\ df_cache[1].KeyOdds = df_in[1].KeyOdds
                    /\ df_cache[1].Back_Model = rows[1].Back_Model
                    /\ df_cache[1].Indicators_Model = rows[1].Indicators_Model
                    /\ cache_hits = 0

\* C7: one call of process_with_retry starts the work function at most
\* MAX_ATTEMPTS times and starts none after a success; it raises only after
\* exactly MAX_ATTEMPTS attempts; the orchestrator then leaves that row out
\* and moves on to the next row.
C7_AttemptsBounded ==
    /\ started <= MAX_ATTEMPTS
    /\ (ret.kind = "value" => (worker # "running" /\ rpc \in {"exit", "idle"}))
    /\ (pc = "raised" => (started = MAX_ATTEMPTS /\ ret.kind = "none"))
    /\ \A j \in 1..Len(df_in) :
          status[j] = "exhausted" => (idx > j /\ ~InOutput(j))

\* C7 witness: after a row whose retries were exhausted, a later row was
\* scraped.
C7_Witness ==
    \E j, i \in 1..Len(df_in) :
        /\ j < i
        /\ status[j] = "exhausted"
        /\ status[i] = "scraped"

\* C8: no failure that concerns a single work item aborts the run: a run ends
\* early only when a write to the store fails.
C8_RunNeverAborts == pc = "aborted" => abort = "WriteError"

C10_UpsertIdempotent ==
    op.name = "upsert again"
        => (df_cache = prev /\ Cardinality(MatchRows(df_cache, op.key)) = 1)

\* C10 witness: the same cache_upsert applied twice, to a cache that had no
\* record under the key and to one that had.
C10_Witness ==
    /\ op.name = "upsert again"
    /\ df_cache = prev
    /\ Len(df_cache) >= 2
    /\ MatchRows(cache0, op.key) = {}

\* C11: cache_upsert(k, b, i) adds one record when k has none and otherwise
\* replaces both result fields of k's record by b and i, whatever they were;
\* when b and i are filled, cache_lookup(k) on the result returns a hit with
\* exactly b and i.
C11_UpsertLastWriteWins ==
    op.name = "upsert" =>
        /\ MatchRows(df_cache, op.key) # {}
        /\ \A k \in MatchRows(df_cache, op.key) :
              /\ df_cache[k].Back_Model = op.Back_Model
              /\ df_cache[k].Indicators_Model = op.Indicators_Model
        /\ Len(df_cache) = IF MatchRows(prev, op.key) = {} THEN Len(prev) + 1 ELSE Len(prev)
        /\ (IsFilled(op.Back_Model) /\ IsFilled(op.Indicators_Model))
              => /\ ~LookupRaises(df_cache, op.key)
                 /\ cache_lookup(df_cache, op.key) =
                       [kind |-> "hit", Back_Model |-> op.Back_Model,
                        Indicators_Model |-> op.Indicators_Model, KeyOdds |-> op.key]

\* C11 witness: a cache_upsert with filled texts on a key whose record held
\* two other filled texts.
C11_Witness ==
    /\ op.name = "upsert"
    /\ IsFilled(op.Back_Model) /\ IsFilled(op.Indicators_Model)
    /\ \E k \in MatchRows(prev, op.key) :
          /\ IsFilled(prev[k].Back_Model) /\ IsFilled(prev[k].Indicators_Model)
          /\ prev[k].Back_Model # op.Back_Model
          /\ prev[k].Indicators_Model # op.Indicators_Model

\* the price an odds cell stands for, in hundredths: the float itself, or the
\* value of a text with two decimals
CentsOf(x) ==
    IF x.t = "num" THEN x.v
    ELSE LET p == Split(x.s, ".") IN 100 * DigitsValue(p[1]) + DigitsValue(p[2])

\* record x is not after record y in the order of the numeric triples
TripleLeq(x, y) ==
    LET a == <<CentsOf(x.Odd_Back_H), CentsOf(x.Odd_Back_D), CentsOf(x.Odd_Back_A)>>
        b == <<CentsOf(y.Odd_Back_H), CentsOf(y.Odd_Back_D), CentsOf(y.Odd_Back_A)>>
    IN  \/ a[1] < b[1]
        \/ a[1] = b[1] /\ a[2] < b[2]
        \/ a[1] = b[1] /\ a[2] = b[2] /\ a[3] <= b[3]

\* C12: after a cache_upsert on a cache as load_cache_df returned it, the
\* records are in ascending order of their numeric (home, draw, away) triple.
C12_SortedByNumericTriple ==
    (op.name = "upsert" /\ prev = cache0) =>
        \A k, m \in 1..Len(df_cache) : k < m => TripleLeq(df_cache[k], df_cache[m])

\* C13: in every run of main save_cache_df is called exactly once, after the
\* last work item was processed, and it writes the whole in-memory cache: no
\* run has a second call or a call inside the loop, a run that has ended has
\* had its call, and after the call the store holds the cache of the run.
C13_CacheSavedOnceAtEnd ==
    /\ saves <= 1
    /\ (saves = 1 => idx > Len(df_in))
    /\ (pc = "done" => stored = df_cache)
    /\ (pc \in {"done", "aborted"} => saves = 1)

\* C14: an attempt yields a value only when both texts of the work function
\* are filled; an attempt that ended with any exception of its worker, the
\* RuntimeError of an invalid result included, is handled in one way: the
\* exception becomes last_exc, nothing is returned and no sweep is made.
C14_SuccessOnlyIfBothFilled ==
    /\ (fut.kind = "value"
          => (IsFilled(fut.Back_Model) /\ IsFilled(fut.Indicators_Model)))
    /\ (ret.kind = "value"
          => (IsFilled(ret.Back_Model) /\ IsFilled(ret.Indicators_Model)))
    /\ (pc = "retry" /\ rpc = "exit" /\ ended = "result" /\ fut.kind = "exc")
          => (last_exc = fut.exc /\ ret.kind = "none" /\ ~swept)

\* C14 witness: an attempt ended with the RuntimeError of an invalid result
\* and the loop is about to start the next attempt.
C14_Witness ==
    /\ pc = "retry"
    /\ rpc = "loop"
    /\ last_exc = "RuntimeError"
    /\ attempt >= 1
    /\ attempt + 1 \in AttemptRange

\* C15: reclamation never raises: whatever steps fail, resilient_quit returns
\* normally, and _do_one_attempt ends with the outcome of its try block.
C15_ReclamationNeverRaises ==
    /\ qret # "raised"
    /\ (pc = "finally" /\ worker = "done") => (qret = "returned" /\ fut = qout)

\* C15 witness: the graceful quit hung, terminate left the process alive, kill
\* raised and the pkill raised, after a try block that had raised.
C15_Witness ==
    /\ pc = "finally"
    /\ worker = "done"
    /\ qenv = QuitEnv("hang", "alive", "alive", "raise", "raise")
    /\ qout.kind = "exc"
    /\ Len(qlog) = 4

\* C16: resilient_quit escalates in a fixed order: driver.quit() is the first
\* step and the call goes on after the grace window even when quit hangs;
\* terminate follows only a quit that did not complete; kill follows only a
\* terminate that left the process alive; the pkill is the last step; and
\* after a quit that completed in the window there is no other step.
C16_EscalationOrder ==
    (pc = "finally" /\ worker = "done") =>
        /\ qret = "returned"
        /\ qlog # <<>>
        /\ qlog[1] = "quit"
        /\ (qenv.quit = "ok" => qlog = <<"quit">>)
        /\ \A k \in 2..Len(qlog) :
              /\ qlog[k] # "quit"
              /\ (qlog[k] = "terminate" => (k = 2 /\ qenv.quit # "ok"))
              /\ (qlog[k] = "kill"
                    => (k = 3 /\ qlog[2] = "terminate" /\ qenv.term = "alive"))
              /\ (qlog[k] = "pkill" => k = Len(qlog))

\* C16 witness: a call that went through all four steps.
C16_Witness ==
    /\ pc = "finally"
    /\ worker = "done"
    /\ qlog = <<"quit", "terminate", "kill", "pkill">>

\* C17: the worker of an attempt is submitted only when no worker of the call
\* is executing, one abandoned after a timeout included.
C17_OneWorkerAtATime ==
    [][ (pc = "retry" /\ started' = started + 1) => worker # "running" ]_vars

\* C17 witness: the worker of a later attempt runs after an attempt that
\* timed out.
C17_Witness ==
    /\ pc = "retry"
    /\ attempt >= 2
    /\ worker = "running"
    /\ last_exc = "TimeoutError"

\* C18: the driver a worker holds was built by the attempt this worker belongs
\* to, and there is no driver outside a running worker.
C18_FreshDriverPerAttempt ==
    drv # 0 => (worker = "running" /\ drv = attempt)

\* C18 witness: the worker of the third attempt holds its driver.
C18_Witness ==
    /\ worker = "running"
    /\ attempt = 3
    /\ drv = 3

\* C19: process_with_retry has made its pkill sweep for an attempt exactly
\* when fut.result ended by the deadline, and the sweep is made before the
\* with block is left, so before the next attempt is submitted.
C19_SweepIffDeadline ==
    /\ (pc = "retry" /\ rpc = "exit") => (swept <=> ended = "deadline")
    /\ (swept => (pc = "retry" /\ rpc = "exit"))

\* C19 witness: the sweep was made for an abandoned worker that still runs.
C19_Witness ==
    /\ pc = "retry"
    /\ rpc = "exit"
    /\ swept
    /\ worker = "running"

\* C20: process_with_retry raises only when its last attempt has ended, and
\* what it raises is the failure of that attempt: the Timeout when the deadline
\* ended it, the worker's exception otherwise.
C20_RaisesLastFailure ==
    [][ (pc = "retry" /\ pc' = "raised")
          => /\ attempt = MAX_ATTEMPTS
             /\ ended # ""
             /\ last_exc' = IF ended = "deadline" THEN "TimeoutError" ELSE fut.exc ]_vars

\* C20 witness: a call that raised the RuntimeError of an invalid result.
C20_Witness ==
    /\ pc = "raised"
    /\ last_exc = "RuntimeError"
    /\ started = MAX_ATTEMPTS

\* C21: the value an abandoned worker returns after its attempt was declared a
\* Timeout is never used: the coordinator takes a value only from a future
\* whose result ended the wait, it returns only after such an attempt, and
\* the output row and the cache record of a scraped item carry that value.
C21_LateValueDiscarded ==
    [][ /\ (ret'.kind = "value" /\ ret' # ret)
            => (pc = "retry" /\ rpc = "wait" /\ ended' = "result" /\ ret' = fut)
        /\ (pc = "retry" /\ pc' = "returned")
            => (ended = "result" /\ ret'.kind = "value" /\ ret' = ret)
        /\ (pc = "returned" /\ pc' = "loop")
            => /\ rows' = Append(rows, OutRow(idx, ret.Back_Model, ret.Indicators_Model))
               /\ \A k \in MatchRows(df_cache', df_in[idx].KeyOdds) :
                     /\ df_cache'[k].Back_Model = ret.Back_Model
                     /\ df_cache'[k].Indicators_Model = ret.Indicators_Model ]_vars

\* C21 witness: the worker of an attempt that was declared a Timeout has
\* returned a value, and the coordinator holds none.
C21_Witness ==
    /\ pc = "retry"
    /\ rpc = "exit"
    /\ ended = "deadline"
    /\ worker = "done"
    /\ fut.kind = "value"
    /\ ret.kind = "none"


\* the hundredth nearest to a magnitude in thousandths that is not halfway
NearestCents(m) == CHOOSE c \in 0..(m \div 10 + 1) : 10 * c - m < 5 /\ m - 10 * c < 5

\* two arguments stand for the same value once rounded to hundredths
SameRounded(x, y) ==
    LET fx == PyFloat(x)
        fy == PyFloat(y)
    IN  /\ fx.k = fy.k
        /\ fx.k \in {"fin", "inf"} => fx.neg = fy.neg
        /\ fx.k = "fin" => NearestCents(fx.m) = NearestCents(fy.m)

\* C22: normalize_odds is deterministic and rounding-stable: two triples whose
\* prices are the same number once rounded to CACHE_ROUND_DECIMALS places
\* (2, "2.0", "2.00", 2.004, "1.996") get the same key and the same rounded
\* triple, and normalizing the rounded triple it returned gives the same
\* triple and key again.
C22_NormalizeStable ==
    /\ (nout.step # "" /\ \A i \in 1..3 : SameRounded(nin.x[i], nin.y[i]))
          => nout.rx = nout.ry
    /\ nout.step = "again" => nout.again = nout.rx

C22_Witness ==
    /\ nout.step = "again"
    /\ nin.x[1] = IntIn(2)
    /\ nin.y[1] = StrIn(<<"1", ".", "9", "9", "6">>)
    /\ nout.ry.key = <<"2", ".", "0", "0", "-", "3", ".", "4", "0", "-", "3", ".", "2", "0">>
    /\ nout.again.key = nout.ry.key

\* a float that is a finite positive number
FinitePositive(f) == f.k = "fin" /\ ~f.neg /\ f.m > 0

\* C23: normalize_odds gives the empty key whenever one of its inputs is not a
\* finite positive number (zero, negative, NaN, an infinity, no number at all).
C23_EmptyKeyUnlessPositive ==
    (nout.step # "" /\ \E i \in 1..3 : ~FinitePositive(PyFloat(nin.x[i])))
       => nout.rx.key = <<>>

\* C24: load_cache_df never raises: with the store absent or unreadable, on
\* the S3 path and on the local path, main gets an empty cache from it and
\* goes on with that cache instead of failing.
C24_LoadDegradesToEmpty ==
    (lenv.file \in {"absent", "unreadable"} /\ pc # "load")
       => (pc # "aborted" /\ df_cache = <<>>)

\* the end-of-run steps of main, in the order of the code
EndSteps == <<"output", "cache", "report", "notify">>

\* C25: a failed external write at the end of the run (save_output_df,
\* save_cache_df, the HTML report, the shutdown notification) is not fatal:
\* main does not end with the exception and every end-of-run step is still
\* called; a failed output save does not keep the cache from being saved.
C25_EndWritesNotFatal ==
    endlog # <<>> =>
       /\ pc # "aborted"
       /\ (pc = "done" => endlog = EndSteps)

\* C26: a result the run already has is never recomputed: once an item with
\* some key was served from the cache or scraped, no later item with the same
\* key makes main call process_with_retry.
C26_NoRecompute ==
    [][ (pc = "loop" /\ pc' = "retry") =>
          ~\E j \in 1..(idx - 1) : /\ status[j] \in {"hit", "scraped"}
                                    /\ df_in[j].KeyOdds = df_in[idx].KeyOdds ]_vars

C26_Witness ==
    /\ Len(df_in) = 2
    /\ df_in[1].KeyOdds = df_in[2].KeyOdds
    /\ status = <<"scraped", "hit">>
    /\ cache_hits = 1

\* a numeric cell of df_in as the float handed to normalize_odds
CellFloat(x) == FloatIn("fin", x.v < 0, 10 * (IF x.v < 0 THEN -x.v ELSE x.v))

\* the key normalize_odds derives from a row's triple
DerivedKey(r) ==
    Str(normalize_odds(CellFloat(r.Odd_Back_H), CellFloat(r.Odd_Back_D),
                       CellFloat(r.Odd_Back_A), CACHE_ROUND_DECIMALS).key)

\* C27: the key main uses for an item's cache_lookup and cache_upsert is the
\* key normalize_odds derives from the item's own triple under
\* CACHE_ROUND_DECIMALS.
C27_KeyDerivedFromTriple ==
    \A j \in 1..Len(df_in) :
        (\/ status[j] \in {"hit", "scraped", "exhausted"}
         \/ (j = idx /\ pc \in {"retry", "returned", "raised"}))
           => df_in[j].KeyOdds = DerivedKey(df_in[j])

RECURSIVE LoopRaisesFrom(_, _, _)
\* the item loop entered without a pre-scan ends in an exception of its first
\* cache_lookup: rows with a false key are skipped, the first other row is
\* looked up (after a lookup that returns, the cache is never empty again)
LoopRaisesFrom(rs, c, j) ==
    IF j > Len(rs) THEN FALSE
    ELSE IF Falsy(rs[j].KeyOdds) THEN LoopRaisesFrom(rs, c, j + 1)
    ELSE LookupRaises(c, rs[j].KeyOdds)

\* C28: the pre-scan is a pure optimization: it changes neither the cache,
\* the hit counter nor the output, and it ends the run only where the item
\* loop without it would end the run as well, so that the run with the
\* pre-scan ends with the output and cache of the run without it.
C28_PreScanPure ==
    [][ pc = "prescan" =>
          /\ df_cache' = df_cache
          /\ cache_hits' = cache_hits
          /\ rows' = rows
          /\ idx' = idx
          /\ (pc' = "aborted" => LoopRaisesFrom(df_in, df_cache, 1)) ]_vars

\* how many records of c are equal to r
CountOf(c, r) == Cardinality({k \in 1..Len(c) : c[k] = r})

\* the records of c whose key is not key
OtherRecords(c, key) == {c[k] : k \in {j \in 1..Len(c) : ~CellEq(c[j].KeyOdds, key)}}

\* C29: cache_upsert(k, b, i) changes nothing but k's record: the records of
\* every other key are the same before and after (triple, both result fields
\* and key), and the number of records grows by one when k was absent and
\* stays when k was present.
C29_UpsertFrame ==
    (op.name \in {"upsert", "upsert again"}) =>
       /\ OtherRecords(df_cache, op.key) = OtherRecords(prev, op.key)
       /\ \A r \in OtherRecords(prev, op.key) : CountOf(df_cache, r) = CountOf(prev, r)
       /\ Len(df_cache) = Len(prev) + (IF MatchRows(prev, op.key) = {} THEN 1 ELSE 0)

C29_Witness ==
    /\ op.name = "upsert"
    /\ Len(prev) = 2
    /\ MatchRows(prev, op.key) # {}
    /\ OtherRecords(prev, op.key) # {}
    /\ prev # df_cache
    /\ Len(df_cache) = 2

\* C30: no driver outlives its process_with_retry call: when the call returns
\* or raises, every driver one of its attempts created has been handed to
\* resilient_quit.
C30_NoDriverOutlivesCall ==
    pc \in {"returned", "raised"} => (drv = 0 /\ ~leaked)

====
